---- MODULE Spec2Model ----
(***************************************************************************)
(* Model of the risk-prediction serving layer of backend/api/app.py: the   *)
(* model registry (models, current_model_type, feature_names), its loader, *)
(* and the request handlers built on it.  A handler that touches the       *)
(* shared registry more than once is modelled step by step, one step per   *)
(* read or write of the shared globals, so that requests served by         *)
(* different worker threads interleave as they do in the threaded server.  *)
(***************************************************************************)
EXTENDS Integers, Sequences, FiniteSets, TLC

VARIABLES
    ENABLE_MULTI_MODEL,   \* config.json features.ENABLE_MULTI_MODEL, read once at import
    disk,                 \* what the models directory holds, per folder
    models,               \* the registry: bundle id -> bundle
    current_model_type,   \* the persistent active pointer
    feature_names,        \* the module-level "current feature schema"
    phase,                \* "startup" until load_model_and_features has run
    load_failed,          \* ModelLoadError was raised and caught at startup
    reqs,                 \* the requests in flight, one record per worker
    quiet                 \* history: the requests accepted since no request was in flight

vars == <<ENABLE_MULTI_MODEL, disk, models, current_model_type, feature_names,
          phase, load_failed, reqs, quiet>>

registry == <<models, current_model_type, feature_names>>

----------------------------------------------------------------------------
(* Bounds of the model.                                                    *)

\* worker threads serving requests at the same time in the concurrent specification
MaxWorkers == 2
\* at most this many bundles on disk carry a defective classifier or schema
MaxDefective == 1
\* assignments per course in the enumerated payloads
MaxAssignments == 4
\* students in the enumerated (short) batches
MaxStudents == 2

\* rows in the result of the bulk pipeline
MaxRows == 3

\* the submissions of a course in the exhaustive part of the extractor inputs
MaxSubmissions == 2

----------------------------------------------------------------------------
(* Program constants.                                                      *)

\* the ids of AVAILABLE_MODELS in dict (insertion) order
AvailableOrder == <<"1_3", "1_6", "1_9", "1_12">>

AvailableIds == {AvailableOrder[i] : i \in 1..Len(AvailableOrder)}

AVAILABLE_MODELS ==
    [id \in AvailableIds |->
        [months_required |-> CASE id = "1_3" -> 3
                               [] id = "1_6" -> 6
                               [] id = "1_9" -> 9
                               [] id = "1_12" -> 12,
         folder |-> id]]

\* the default of the module-level current_model_type
DefaultModelType == "1_3"

\* months_required that validate_data_for_model assumes for the single model
SingleRequiredMonths == 6

\* months_required written in the config of the 'single' bundle
SingleConfigMonths == 6

\* months_required written in the config of the 'legacy' bundle
LegacyConfigMonths == 3

\* the batch size limit of predict_batch
MaxBatch == 100

----------------------------------------------------------------------------
(* The models directory.  A folder either lacks a usable bundle or holds   *)
(* one; the classifier and the schema that joblib returns are whatever was *)
(* pickled, so a present bundle may have a classifier without              *)
(* predict_proba, one whose classes_ lack the label 1, or a schema that is *)
(* not a list.                                                             *)

DiskSlots == AvailableIds \cup {"flat"}

DefectKinds == {"no_proba", "no_label_1", "schema_not_list"}

SlotKinds == {"absent", "ok"} \cup DefectKinds

Min(a, b) == IF a < b THEN a ELSE b

Max(a, b) == IF a > b THEN a ELSE b

\* the classifier object joblib.load returns for a folder
Classifier(id, kind) ==
    [of |-> id,
     has_predict_proba |-> kind # "no_proba",
     classes |-> IF kind = "no_label_1" THEN {"At Risk", "Not At Risk"} ELSE {"0", "1"}]

\* the feature-name object joblib.load returns for a folder
Schema(id, kind) == [of |-> id, is_list |-> kind # "schema_not_list"]

NoModel == [of |-> "None", has_predict_proba |-> FALSE, classes |-> {}]

NoSchema == [of |-> "None", is_list |-> FALSE]

\* scaler.pkl is optional: the bundle records None when the file is missing
Bundle(id, kind, months) ==
    [model |-> Classifier(id, kind),
     feature_names |-> Schema(id, kind),
     scaler |-> IF kind = "no_scaler" THEN "None" ELSE "StandardScaler",
     config |-> [months_required |-> months]]

EmptyModels == [id \in {} |-> Bundle("None", "ok", 0)]

----------------------------------------------------------------------------
(* load_model_and_features: the result of loading from a given disk.       *)
(* error = TRUE stands for ModelLoadError; the globals are then untouched. *)

\* a loader that also insists on scaler.pkl
LoadsWithScalerOnly(kind) ==
    kind \notin {"absent", "no_classifier", "no_schema", "empty_schema", "no_scaler"}

\* the files of one bundle pass the loader's tests: the classifier file and
\* the schema file exist and the schema is not empty; "absent" is a folder
\* with neither file, "no_scaler" a folder without scaler.pkl only
Loads(kind) == kind \notin {"absent", "no_classifier", "no_schema", "empty_schema"}

\* single-model mode: the flat files student_risk_model.pkl / features.pkl
LoadSingle(d) ==
    IF ~Loads(d["flat"])
    THEN [error |-> TRUE, models |-> EmptyModels,
          current_model_type |-> DefaultModelType, feature_names |-> NoSchema]
    ELSE [error |-> FALSE,
          models |-> [id \in {"single"} |-> Bundle("single", d["flat"], SingleConfigMonths)],
          current_model_type |-> "single",
          feature_names |-> Schema("single", d["flat"])]

\* the enumerated bundles that load, in AVAILABLE_MODELS order
LoadedOrder(d) == SelectSeq(AvailableOrder, LAMBDA id : Loads(d[id]))

\* multi-model loading that takes the legacy files before it tests whether
\* any bundle loaded
LoadMultiLegacyFirst(d) ==
    LET order == LoadedOrder(d)
        loaded == {order[i] : i \in 1..Len(order)}
        all == IF Loads(d["flat"]) THEN loaded \cup {"legacy"} ELSE loaded
        cur == IF DefaultModelType \in loaded THEN DefaultModelType
               ELSE IF loaded # {} THEN order[1] ELSE "legacy"
    IN  IF all = {}
        THEN [error |-> TRUE, models |-> EmptyModels,
              current_model_type |-> DefaultModelType, feature_names |-> NoSchema]
        ELSE [error |-> FALSE,
              models |-> [id \in all |->
                            IF id = "legacy"
                            THEN Bundle("legacy", d["flat"], LegacyConfigMonths)
                            ELSE Bundle(id, d[id], AVAILABLE_MODELS[id].months_required)],
              current_model_type |-> cur,
              feature_names |-> Schema(cur, IF cur = "legacy" THEN d["flat"] ELSE d[cur])]

\* multi-model loading that leaves the active pointer on the default id
\* whether or not that bundle loaded
LoadMultiKeepsDefault(d) ==
    LET order == LoadedOrder(d)
        loaded == {order[i] : i \in 1..Len(order)}
        withLegacy == IF Loads(d["flat"]) THEN loaded \cup {"legacy"} ELSE loaded
    IN  IF loaded = {}
        THEN [error |-> TRUE, models |-> EmptyModels,
              current_model_type |-> DefaultModelType, feature_names |-> NoSchema]
        ELSE [error |-> FALSE,
              models |-> [id \in withLegacy |->
                            IF id = "legacy"
                            THEN Bundle("legacy", d["flat"], LegacyConfigMonths)
                            ELSE Bundle(id, d[id], AVAILABLE_MODELS[id].months_required)],
              current_model_type |-> DefaultModelType,
              feature_names |-> Schema(DefaultModelType, d[DefaultModelType])]

\* multi-model mode: every enumerated folder, then the legacy fallback
LoadMulti(d) ==
    LET order == LoadedOrder(d)
        loaded == {order[i] : i \in 1..Len(order)}
        cur == IF DefaultModelType \in loaded THEN DefaultModelType ELSE order[1]
        withLegacy == IF Loads(d["flat"]) THEN loaded \cup {"legacy"} ELSE loaded
    IN  IF loaded = {}
        THEN [error |-> TRUE, models |-> EmptyModels,
              current_model_type |-> DefaultModelType, feature_names |-> NoSchema]
        ELSE [error |-> FALSE,
              models |-> [id \in withLegacy |->
                            IF id = "legacy"
                            THEN Bundle("legacy", d["flat"], LegacyConfigMonths)
                            ELSE Bundle(id, d[id], AVAILABLE_MODELS[id].months_required)],
              current_model_type |-> cur,
              feature_names |-> Schema(cur, d[cur])]

LoadResult(multi, d) == IF multi THEN LoadMulti(d) ELSE LoadSingle(d)

----------------------------------------------------------------------------
(* Registry accessors.                                                     *)

get_current_model(ms, cmt) == IF cmt \in DOMAIN ms THEN ms[cmt].model ELSE NoModel

get_current_feature_names(ms, cmt, fn) ==
    IF cmt \in DOMAIN ms THEN ms[cmt].feature_names ELSE fn

\* set_current_model without the "model_type in models" test
set_current_model_unchecked(ms, cmt, fn, model_type) ==
    [ok |-> TRUE, current_model_type |-> model_type,
     feature_names |-> IF model_type \in DOMAIN ms
                       THEN ms[model_type].feature_names ELSE fn]

\* set_current_model(model_type): the return value and the globals after it
set_current_model(ms, cmt, fn, model_type) ==
    IF model_type \in DOMAIN ms
    THEN [ok |-> TRUE, current_model_type |-> model_type,
          feature_names |-> ms[model_type].feature_names]
    ELSE [ok |-> FALSE, current_model_type |-> cmt, feature_names |-> fn]

----------------------------------------------------------------------------
(* Request payloads.  A parsed JSON value is described by its type and, for *)
(* an object, by the keys the handlers look at.                            *)

\* one element of the "courses" array
CourseWith(n) == [is_dict |-> TRUE, has_assignments |-> TRUE, is_list |-> TRUE, n |-> n]

CourseNotDict == [is_dict |-> FALSE, has_assignments |-> FALSE, is_list |-> FALSE, n |-> 0]

CourseNoAssignments == [is_dict |-> TRUE, has_assignments |-> FALSE, is_list |-> FALSE, n |-> 0]

CourseAssignmentsNotList == [is_dict |-> TRUE, has_assignments |-> TRUE, is_list |-> FALSE, n |-> 0]

CourseKinds ==
    {CourseNotDict, CourseNoAssignments, CourseAssignmentsNotList}
        \cup {CourseWith(n) : n \in 0..MaxAssignments}

\* a JSON value: type is "dict", "str", "list", "number" or "null"
\*   model_id, studentId: "absent" or the string under that key
\*   has_courses / courses_is_list / courses: the "courses" key
\*   numeric: "absent", "ok" or "bad": whether averageScore, completionRate and
\*            gradeLevel are absent, all accepted by float(), or one is not
Json(type, model_id, has_courses, courses_is_list, courses, numeric, studentId) ==
    [type |-> type, model_id |-> model_id, has_courses |-> has_courses,
     courses_is_list |-> courses_is_list, courses |-> courses,
     numeric |-> numeric, studentId |-> studentId]

NonDict(type) == Json(type, "absent", FALSE, FALSE, << >>, "absent", "absent")

Dict(model_id, courses, numeric) ==
    Json("dict", model_id, TRUE, TRUE, courses, numeric, "absent")

DictNoCourses(model_id) == Json("dict", model_id, FALSE, FALSE, << >>, "absent", "absent")

DictCoursesNotList(model_id) ==
    Json("dict", model_id, TRUE, FALSE, << >>, "absent", "absent")

\* Python truthiness of the value ("not data"); a str, list or number payload
\* stands for a non-empty one
Truthy(data) ==
    CASE data.type = "null" -> FALSE
      [] data.type = "dict" ->
            \/ data.model_id # "absent" \/ data.has_courses
            \/ data.numeric # "absent" \/ data.studentId # "absent"
      [] OTHER -> TRUE

RECURSIVE SumAssignments(_)
\* the loop of validate_data_for_model over the courses: only dict courses
\* whose assignments value is a list are counted
SumAssignments(courses) ==
    IF courses = << >> THEN 0
    ELSE LET c == Head(courses)
         IN  (IF c.is_dict /\ c.has_assignments /\ c.is_list THEN c.n ELSE 0)
                + SumAssignments(Tail(courses))

Verdict(ok, months, reason) == [ok |-> ok, months |-> months, reason |-> reason]

\* validate_data_for_model(data, model_type) -> (is_valid, months_available, error)
validate_data_for_model(multi, data, model_type) ==
    IF multi /\ model_type # "single" /\ model_type \notin AvailableIds
    THEN Verdict(FALSE, 0, "Unknown model type")
    ELSE IF data.type # "dict"
    THEN Verdict(FALSE, 0, "Error validating data")        \* data.get raises
    ELSE
    LET required_months ==
            IF ~multi \/ model_type = "single"
            THEN SingleRequiredMonths
            ELSE AVAILABLE_MODELS[model_type].months_required
        \* a courses value that is not a list (a str, a dict) iterates to no dict course
        total_assignments ==
            IF data.courses_is_list THEN SumAssignments(data.courses) ELSE 0
        estimated_months == Min(required_months, Max(1, total_assignments))
    IN  IF ~data.has_courses \/ (data.courses_is_list /\ data.courses = << >>)
        THEN Verdict(FALSE, 0, "No course data provided")
        ELSE IF total_assignments = 0
        THEN IF model_type \in AvailableIds
             THEN Verdict(FALSE, 0, "No assignments found")
             ELSE Verdict(FALSE, 0, "Error validating data") \* KeyError building the message
        ELSE Verdict(TRUE, estimated_months, "None")

RECURSIVE CoursesWellFormed(_)
CoursesWellFormed(courses) ==
    \/ courses = << >>
    \/ /\ Head(courses).is_dict
       /\ Head(courses).has_assignments
       /\ Head(courses).is_list
       /\ CoursesWellFormed(Tail(courses))

\* validate_input_data(data): "ok", or the DataValidationError it raises
validate_input_data(data) ==
    IF ~Truthy(data) THEN "Request body is empty"
    ELSE IF data.type # "dict" THEN "Request body must be a JSON object"
    ELSE IF ~data.has_courses THEN "Missing required field: courses"
    ELSE IF ~data.courses_is_list THEN "Courses must be an array"
    ELSE IF data.courses = << >> THEN "At least one course is required"
    ELSE IF ~CoursesWellFormed(data.courses) THEN "Course malformed"
    ELSE IF data.numeric = "bad" THEN "Field must be a number"
    ELSE "ok"

----------------------------------------------------------------------------
(* The float arithmetic of the extractor, as exact fractions n/d with d > 0 *)
(* in lowest terms.                                                         *)

Abs(a) == IF a < 0 THEN 0 - a ELSE a

RECURSIVE GCD(_, _)
GCD(a, b) == IF b = 0 THEN a ELSE GCD(b, a % b)

Rat(n, d) ==
    LET s == IF d < 0 THEN 0 - 1 ELSE 1
        g == GCD(Abs(n), Abs(d))
    IN  [n |-> (s * n) \div g, d |-> (s * d) \div g]

Zero == [n |-> 0, d |-> 1]

OfInt(a) == [n |-> a, d |-> 1]

RAdd(a, b) == Rat(a.n * b.d + b.n * a.d, a.d * b.d)

RSub(a, b) == Rat(a.n * b.d - b.n * a.d, a.d * b.d)

RMul(a, b) == Rat(a.n * b.n, a.d * b.d)

\* a / b for b # 0
RDiv(a, b) == Rat(a.n * b.d, a.d * b.n)

RPositive(a) == a.n > 0

RECURSIVE RSum(_)
RSum(xs) == IF xs = << >> THEN Zero ELSE RAdd(Head(xs), RSum(Tail(xs)))

\* np.mean of a non-empty list
RMean(xs) == RDiv(RSum(xs), OfInt(Len(xs)))

\* np.var of a non-empty list: the population variance
RVar(xs) ==
    LET mu == RMean(xs)
    IN  RMean([k \in 1..Len(xs) |-> RMul(RSub(xs[k], mu), RSub(xs[k], mu))])

----------------------------------------------------------------------------
(* preprocess_student_data_for_prediction: the row it builds.  A payload   *)
(* here is [courses, averageScore, completionRate, gradeLevel]; a JSON     *)
(* value under a numeric key is [kind, v] with kind "absent", "num" (the   *)
(* integer v), "none" (null), "bad" (not accepted by float()), "nan" or    *)
(* "inf"; a course is [kind, assignments] with kind "list", "not_dict" or  *)
(* "not_list"; an assignment is [score, time, late].                       *)

\* the months the API extractor builds and the months the legacy one builds
ApiMonths == 6

LegacyMonths == 3

DefaultGradeLevel == 12

ApiNames ==
    [avg_score |-> "avg_score_month_1_to_6", avg_time |-> "avg_time_month_1_to_6",
     score_variance |-> "score_variance_month_1_to_6",
     time_variance |-> "time_variance_month_1_to_6",
     time_score_ratio |-> "time_score_ratio_month_1_to_6",
     engagement |-> "engagement_month_1_to_6",
     weighted_score |-> "weighted_score_month_1_to_6",
     score_trend |-> "score_trend_month_1_to_6"]

LegacyNames ==
    [avg_score |-> "early_avg_score", avg_time |-> "early_avg_time",
     score_variance |-> "early_score_variance", time_variance |-> "early_time_variance",
     time_score_ratio |-> "early_time_score_ratio", engagement |-> "early_engagement",
     weighted_score |-> "weighted_early_score", score_trend |-> "early_trend"]

Num(v) == [kind |-> "num", v |-> v]

Special(kind) == [kind |-> kind, v |-> 0]

Submission(score, time, late) == [score |-> score, time |-> time, late |-> late]

Course(assignments) == [kind |-> "list", assignments |-> assignments]

\* score and time_spent after lines 745-755: None is 0, and a value float()
\* refuses sets both to 0
Coerced(a) ==
    IF a.score.kind = "bad" \/ a.time.kind = "bad"
    THEN [score |-> 0, time |-> 0]
    ELSE [score |-> a.score.v, time |-> a.time.v]

\* the assignments the loops of lines 721-776 reach, each with its index in
\* its course: courses that are no dict or whose assignments is no list are
\* skipped
RECURSIVE Reached(_)
Reached(courses) ==
    IF courses = << >> THEN << >>
    ELSE LET c == Head(courses)
             own == IF c.kind = "list"
                    THEN [i \in 1..Len(c.assignments) |->
                            [idx |-> i - 1, a |-> c.assignments[i]]]
                    ELSE << >>
         IN  own \o Reached(Tail(courses))

\* monthly_scores[m-1] and monthly_times[m-1] for the month m of H
InMonth(reached, H, m) == SelectSeq(reached, LAMBDA e : (e.idx % H) + 1 = m)

UpToMonth(reached, H, m) == SelectSeq(reached, LAMBDA e : (e.idx % H) + 1 <= m)

RECURSIVE SumScores(_)
SumScores(es) ==
    IF es = << >> THEN 0 ELSE Coerced(Head(es).a).score + SumScores(Tail(es))

RECURSIVE SumTimes(_)
SumTimes(es) ==
    IF es = << >> THEN 0 ELSE Coerced(Head(es).a).time + SumTimes(Tail(es))

\* the mean of each month taken alone
monthly_mean_scores(reached, H) ==
    [m \in 1..H |->
        LET own == InMonth(reached, H, m)
        IN  IF own = << >> THEN Zero ELSE Rat(SumScores(own), Len(own))]

\* lines 782-802
cumulative_scores(reached, H) ==
    [m \in 1..H |->
        LET upto == UpToMonth(reached, H, m)
        IN  IF upto = << >> THEN Zero ELSE Rat(SumScores(upto), Len(upto))]

monthly_time_totals(reached, H) ==
    [m \in 1..H |-> SumTimes(InMonth(reached, H, m))]

\* [s for s in cumulative_scores if s > 0]
non_zero_scores(cum) == SelectSeq(cum, RPositive)

\* lines 877-887
weighted_score(cum) ==
    LET valid == SelectSeq([m \in 1..Len(cum) |-> [score |-> cum[m], weight |-> m]],
                           LAMBDA p : RPositive(p.score))
    IN  IF valid = << >> THEN Zero
        ELSE RDiv(RSum([k \in 1..Len(valid) |->
                            RMul(valid[k].score, OfInt(valid[k].weight))]),
                  RSum([k \in 1..Len(valid) |-> OfInt(valid[k].weight)]))

\* lines 890-898: the least-squares slope of the positive points
score_trend(cum) ==
    LET pts == SelectSeq([m \in 1..Len(cum) |-> [x |-> m, y |-> cum[m]]],
                         LAMBDA p : RPositive(p.y))
        n == OfInt(Len(pts))
        sx == RSum([k \in 1..Len(pts) |-> OfInt(pts[k].x)])
        sy == RSum([k \in 1..Len(pts) |-> pts[k].y])
        sxy == RSum([k \in 1..Len(pts) |-> RMul(OfInt(pts[k].x), pts[k].y)])
        sxx == RSum([k \in 1..Len(pts) |-> OfInt(pts[k].x * pts[k].x)])
    IN  IF Len(pts) < 2 THEN Zero
        ELSE RDiv(RSub(RMul(n, sxy), RMul(sx, sy)), RSub(RMul(n, sxx), RMul(sx, sx)))

MonthName(prefix, m) == prefix \o ToString(m)

\* an averageScore taken whatever float() made of it
average_score_unchecked(v) == v.kind \in {"num", "nan", "inf"}

\* lines 899-905: float() accepts the value and the result is finite
average_score_accepted(v) == v.kind = "num"

\* a completionRate taken without the range test
completion_rate_unchecked(v) == v.kind = "num"

\* lines 907-911: float() accepts the value and 0 <= rate <= 100
completion_rate_accepted(v) == v.kind = "num" /\ v.v >= 0 /\ v.v <= 100

CountLate(reached) == Len(SelectSeq(reached, LAMBDA e : e.a.late))

\* the value every column has at line 924, by column name, for an extractor
\* that builds H months and writes the derived features under the names nm
Columns(H, nm, data) ==
    LET reached == Reached(data.courses)
        cum == cumulative_scores(reached, H)
        times == monthly_time_totals(reached, H)
        positive == non_zero_scores(cum)
        avg_score == IF positive = << >> THEN Zero ELSE RMean(positive)
        avg_time == RMean([m \in 1..H |-> OfInt(times[m])])
        active_months == Cardinality({m \in 1..H : times[m] > 0})
        grade == data.gradeLevel
        avg_override == data.averageScore
        rate_override == data.completionRate
    IN  [Score |-> cum,
         TimeSpent |-> [m \in 1..H |-> OfInt(times[m])],
         totalTimeSpentMinutes |-> OfInt(SumTimes(reached)),
         \* int(float(grade_level)); ValueError and TypeError give 12
         gradeLevel |-> IF grade.kind = "num" THEN OfInt(grade.v)
                        ELSE OfInt(DefaultGradeLevel),
         late_submission_rate |->
            IF Len(reached) > 0 THEN Rat(CountLate(reached), Len(reached)) ELSE Zero,
         \* lines 899-905 overwrite the slot after the ratio was computed
         avg_score |-> IF average_score_accepted(avg_override) THEN OfInt(avg_override.v)
                       ELSE avg_score,
         avg_time |-> avg_time,
         score_variance |-> IF Len(positive) > 1 THEN RVar(positive) ELSE Zero,
         time_variance |-> IF H > 1 THEN RVar([m \in 1..H |-> OfInt(times[m])]) ELSE Zero,
         time_score_ratio |-> IF RPositive(avg_score) THEN RDiv(avg_time, avg_score)
                              ELSE Zero,
         \* lines 907-914
         engagement |-> IF completion_rate_accepted(rate_override)
                        THEN Rat(rate_override.v, 100)
                        ELSE Rat(active_months, H),
         weighted_score |-> weighted_score(cum),
         score_trend |-> score_trend(cum)]

\* the cell under one column name; a name the extractor does not write
\* keeps the 0.0 of line 698
Cell(H, nm, cols, name) ==
    IF \E m \in 1..H : name = MonthName("Score_Month_", m)
    THEN cols.Score[CHOOSE m \in 1..H : name = MonthName("Score_Month_", m)]
    ELSE IF \E m \in 1..H : name = MonthName("TimeSpent_Month_", m)
    THEN cols.TimeSpent[CHOOSE m \in 1..H : name = MonthName("TimeSpent_Month_", m)]
    ELSE IF name = "totalTimeSpentMinutes" THEN cols.totalTimeSpentMinutes
    ELSE IF name = "gradeLevel" THEN cols.gradeLevel
    ELSE IF name = "late_submission_rate" THEN cols.late_submission_rate
    ELSE IF name = nm.avg_score THEN cols.avg_score
    ELSE IF name = nm.avg_time THEN cols.avg_time
    ELSE IF name = nm.score_variance THEN cols.score_variance
    ELSE IF name = nm.time_variance THEN cols.time_variance
    ELSE IF name = nm.time_score_ratio THEN cols.time_score_ratio
    ELSE IF name = nm.engagement THEN cols.engagement
    ELSE IF name = nm.weighted_score THEN cols.weighted_score
    ELSE IF name = nm.score_trend THEN cols.score_trend
    ELSE Zero

Raised(message) == [error |-> message, row |-> << >>]

\* the whole function, for a list feature_names: the row it returns or the
\* PreprocessingError it raises
Extractor(H, nm, data, names) ==
    IF names = << >> THEN Raised("Feature names not available")
    ELSE IF data.courses = << >>
    THEN [error |-> "None", row |-> [k \in 1..Len(names) |-> Zero]]
    \* int(float('inf')) raises OverflowError, which only line 941 catches
    ELSE IF data.gradeLevel.kind = "inf"
            /\ \E k \in 1..Len(names) : names[k] = "gradeLevel"
    THEN Raised("Unexpected error in preprocessing")
    ELSE LET cols == Columns(H, nm, data)
             row == [k \in 1..Len(names) |-> Cell(H, nm, cols, names[k])]
         IN  IF Len(row) # Len(names)
             THEN Raised("Processed data has the wrong number of features")
             ELSE [error |-> "None", row |-> row]

\* api/app.py
processed_data(data, names) ==
    Extractor(ApiMonths, ApiNames, data, names)

\* backend/app.py
legacy_processed_data(data, names) ==
    Extractor(LegacyMonths, LegacyNames, data, names)

\* preprocess_student_data_for_prediction(data, feature_names): whether it
\* returns a vector ("ok") or raises PreprocessingError
preprocess_student_data_for_prediction(data, schema) ==
    IF schema = NoSchema THEN "Feature names not available"
    ELSE IF ~schema.is_list THEN "Feature names must be a list or array"
    ELSE "ok"

\* suggest_interventions(risk_score): the level of the intervention payload
suggest_interventions(risk_score) ==
    IF risk_score >= 80 THEN "High Risk"
    ELSE IF risk_score >= 60 THEN "Moderate Risk"
    ELSE IF risk_score >= 40 THEN "Low Risk"
    ELSE "Minimal Risk"

\* a payload whose courses is a list, as validate_input_data demands; of the
\* values under the numeric keys, validate_input_data lets through those that
\* float() accepts, which includes "nan" and "inf"
Payload(courses, averageScore, completionRate, gradeLevel) ==
    [courses |-> courses, averageScore |-> averageScore,
     completionRate |-> completionRate, gradeLevel |-> gradeLevel]

Absent == Special("absent")

----------------------------------------------------------------------------
(* Requests.                                                               *)

Workers == 1..MaxWorkers

\* a request body: json_ok = FALSE when get_json(force=True) raises
Body(json_ok, data) == [json_ok |-> json_ok, data |-> data]

NoBody == Body(FALSE, NonDict("null"))

NoResponse ==
    [status |-> 0, error |-> "None", model_used |-> "None", scored_by |-> "None",
     schema_of |-> "None", is_at_risk |-> FALSE, probability |-> 0, risk_score |-> 0,
     risk_level |-> "None", months_available |-> 0,
     predictions |-> << >>, failed_predictions |-> << >>,
     summary |-> [total_students |-> 0, successful_predictions |-> 0,
                  failed_predictions |-> 0, at_risk_count |-> 0,
                  at_risk_percentage |-> [num |-> 0, den |-> 1]],
     risk_probs |-> << >>, risk_bucket |-> << >>,
     risk_bucket_counts |-> [high |-> 0, medium |-> 0, low |-> 0, minimal |-> 0],
     health |-> "None", model_loaded |-> FALSE,
     extraction |-> << >>]

ErrorResponse(status, error) == [NoResponse EXCEPT !.status = status, !.error = error]

\* a worker: the handler it runs (kind), where it stands (pc), its locals, and
\* start_ptr / body_read, which record the active pointer when the request was
\* accepted and whether the handler has read the body
Idle ==
    [kind |-> "idle", pc |-> "idle", body |-> NoBody,
     requested_model_id |-> "None", original_model_type |-> "None",
     model_switched |-> FALSE, current_model |-> NoModel, current_features |-> NoSchema,
     start_ptr |-> "None", body_read |-> FALSE, response |-> NoResponse]

\* the probabilities (in thousandths) the classifier may return for class 1
Probabilities == {0, 296, 706, 1000}

\* the same for the students of a batch
BatchProbabilities == {296, 706}

\* the values of "model_id" in the enumerated bodies
ModelIdChoices == {"absent", "bogus", "single", "legacy"} \cup AvailableIds

\* the "courses" arrays of the enumerated bodies: none, or one course
CourseLists == {<< >>} \cup {<<c>> : c \in CourseKinds}

\* the JSON objects sent to /api/predict
PredictDicts ==
    {Dict(m, cs, "absent") : m \in ModelIdChoices, cs \in CourseLists}
        \cup {Dict(m, <<CourseWith(1)>>, "bad") : m \in ModelIdChoices}
        \cup {DictNoCourses(m) : m \in ModelIdChoices}
        \cup {DictCoursesNotList(m) : m \in ModelIdChoices}

PredictBodies ==
    {Body(TRUE, d) : d \in PredictDicts}
        \cup {Body(TRUE, NonDict(t)) : t \in {"list", "null"}}
        \cup {NoBody}

----------------------------------------------------------------------------
(* History of the requests accepted since the server was last quiet: the   *)
(* active pointer at that moment (ptr), whether every request accepted     *)
(* since is a /api/predict call carrying a model_id that names a loaded    *)
(* bundle other than ptr (overrides_only), whether none of them is a       *)
(* POST /api/models/current (no_switch), and whether one was accepted      *)
(* while another was still being handled (overlapped).                     *)

Busy == \E r \in Workers : reqs[r].kind # "idle"

InFlight(r) == reqs[r].kind # "idle" /\ reqs[r].pc # "done"

QuietAt(ptr) ==
    [ptr |-> ptr, overrides_only |-> TRUE, no_switch |-> TRUE, overlapped |-> FALSE]

IsOverride(kind, b, ptr) ==
    /\ kind = "predict"
    /\ b.json_ok
    /\ b.data.type = "dict"
    /\ b.data.model_id \in DOMAIN models
    /\ b.data.model_id # ptr

NoteAccepted(kind, b) ==
    LET base == IF Busy THEN quiet ELSE QuietAt(current_model_type)
    IN  quiet' = [ptr |-> base.ptr,
                  overrides_only |-> base.overrides_only /\ IsOverride(kind, b, base.ptr),
                  no_switch |-> base.no_switch /\ kind # "switch",
                  overlapped |-> base.overlapped \/ \E o \in Workers : InFlight(o)]

----------------------------------------------------------------------------
(* Start of the process.                                                   *)

Defective(d) == {s \in DiskSlots : d[s] \in DefectKinds}

Init ==
    /\ ENABLE_MULTI_MODEL \in BOOLEAN
    /\ disk \in [DiskSlots -> SlotKinds]
    /\ Cardinality(Defective(disk)) <= MaxDefective
    \* single-model mode never looks at the enumerated folders
    /\ ~ENABLE_MULTI_MODEL => \A id \in AvailableIds : disk[id] = "absent"
    /\ models = EmptyModels
    /\ current_model_type = DefaultModelType
    /\ feature_names = NoSchema
    /\ phase = "startup"
    /\ load_failed = FALSE
    /\ reqs = [r \in Workers |-> Idle]
    /\ quiet = QuietAt(DefaultModelType)

\* module import: load_model_and_features() under try / except ModelLoadError
load_model_and_features ==
    /\ phase = "startup"
    /\ LET res == LoadResult(ENABLE_MULTI_MODEL, disk)
       IN  /\ load_failed' = res.error
           /\ models' = res.models
           /\ current_model_type' = res.current_model_type
           /\ feature_names' = res.feature_names
    /\ phase' = "serving"
    /\ UNCHANGED <<ENABLE_MULTI_MODEL, disk, reqs, quiet>>

----------------------------------------------------------------------------
(* POST /api/predict.                                                      *)

Respond(r, resp) ==
    reqs' = [reqs EXCEPT ![r].pc = "done", ![r].response = resp]

\* an error path that returns without the restore
RestoreSkipped(q) ==
    [ok |-> TRUE, current_model_type |-> current_model_type,
     feature_names |-> feature_names]

\* the globals after "if model_switched: set_current_model(original_model_type)"
Restore(q) ==
    IF q.model_switched
    THEN set_current_model(models, current_model_type, feature_names,
                           q.original_model_type)
    ELSE [ok |-> TRUE, current_model_type |-> current_model_type,
          feature_names |-> feature_names]

AcceptPredict(r, bodies) ==
    /\ phase = "serving"
    /\ reqs[r].kind = "idle"
    /\ \E b \in bodies :
          /\ reqs' = [reqs EXCEPT ![r] =
                         [Idle EXCEPT !.kind = "predict", !.pc = "check", !.body = b,
                                      !.start_ptr = current_model_type]]
          /\ NoteAccepted("predict", b)
    /\ UNCHANGED <<ENABLE_MULTI_MODEL, disk, registry, phase, load_failed>>

\* lines 959-967: 503 when no model is loaded
PredictCheck(r) ==
    /\ reqs[r].kind = "predict" /\ reqs[r].pc = "check"
    /\ IF \/ get_current_model(models, current_model_type) = NoModel
          \/ get_current_feature_names(models, current_model_type, feature_names) = NoSchema
       THEN Respond(r, ErrorResponse(503, "Model not available"))
       ELSE reqs' = [reqs EXCEPT ![r].pc = "get_json"]
    /\ UNCHANGED <<ENABLE_MULTI_MODEL, disk, registry, phase, load_failed, quiet>>

\* lines 970-980: parse the body, read model_id (default: the active pointer)
PredictGetJson(r) ==
    /\ reqs[r].kind = "predict" /\ reqs[r].pc = "get_json"
    /\ LET b == reqs[r].body
       IN  IF ~b.json_ok
           THEN reqs' = [reqs EXCEPT ![r].pc = "done", ![r].body_read = TRUE,
                            ![r].response = ErrorResponse(400, "Invalid JSON")]
           ELSE IF b.data.type # "dict"
           \* data.get raises AttributeError: the outer handler answers 500
           THEN reqs' = [reqs EXCEPT ![r].pc = "done", ![r].body_read = TRUE,
                            ![r].response = ErrorResponse(500, "Internal server error")]
           ELSE reqs' = [reqs EXCEPT ![r].pc = "save_original", ![r].body_read = TRUE,
                            ![r].requested_model_id =
                                IF b.data.model_id = "absent"
                                THEN current_model_type ELSE b.data.model_id]
    /\ UNCHANGED <<ENABLE_MULTI_MODEL, disk, registry, phase, load_failed, quiet>>

\* lines 983-984
PredictSaveOriginal(r) ==
    /\ reqs[r].kind = "predict" /\ reqs[r].pc = "save_original"
    /\ reqs' = [reqs EXCEPT ![r].pc = "compare",
                            ![r].original_model_type = current_model_type,
                            ![r].model_switched = FALSE]
    /\ UNCHANGED <<ENABLE_MULTI_MODEL, disk, registry, phase, load_failed, quiet>>

\* lines 986-1001: a requested model other than the active one is looked up and
\* the data validated for it
PredictCompare(r) ==
    /\ reqs[r].kind = "predict" /\ reqs[r].pc = "compare"
    /\ LET q == reqs[r]
           v == validate_data_for_model(ENABLE_MULTI_MODEL, q.body.data,
                                        q.requested_model_id)
       IN  IF q.requested_model_id = current_model_type
           THEN reqs' = [reqs EXCEPT ![r].pc = "get_model"]
           ELSE IF q.requested_model_id \notin DOMAIN models
           THEN Respond(r, ErrorResponse(400, "Invalid model"))
           ELSE IF v.ok
           THEN reqs' = [reqs EXCEPT ![r].pc = "switch"]
           ELSE IF q.requested_model_id \in AvailableIds
           THEN Respond(r, [ErrorResponse(422, "Insufficient data")
                               EXCEPT !.months_available = v.months])
           \* KeyError on AVAILABLE_MODELS[requested_model_id]: outer handler
           ELSE Respond(r, ErrorResponse(500, "Internal server error"))
    /\ UNCHANGED <<ENABLE_MULTI_MODEL, disk, registry, phase, load_failed, quiet>>

\* lines 1003-1005: the temporary switch
PredictSwitch(r) ==
    /\ reqs[r].kind = "predict" /\ reqs[r].pc = "switch"
    /\ LET res == set_current_model(models, current_model_type, feature_names,
                                    reqs[r].requested_model_id)
       IN  /\ current_model_type' = res.current_model_type
           /\ feature_names' = res.feature_names
    /\ reqs' = [reqs EXCEPT ![r].pc = "get_model", ![r].model_switched = TRUE]
    /\ UNCHANGED <<ENABLE_MULTI_MODEL, disk, models, phase, load_failed, quiet>>

\* line 1009
PredictGetModel(r) ==
    /\ reqs[r].kind = "predict" /\ reqs[r].pc = "get_model"
    /\ reqs' = [reqs EXCEPT ![r].pc = "get_features",
                   ![r].current_model = get_current_model(models, current_model_type)]
    /\ UNCHANGED <<ENABLE_MULTI_MODEL, disk, registry, phase, load_failed, quiet>>

\* line 1010
PredictGetFeatures(r) ==
    /\ reqs[r].kind = "predict" /\ reqs[r].pc = "get_features"
    /\ reqs' = [reqs EXCEPT ![r].pc = "score",
                   ![r].current_features =
                       get_current_feature_names(models, current_model_type, feature_names)]
    /\ UNCHANGED <<ENABLE_MULTI_MODEL, disk, registry, phase, load_failed, quiet>>

\* whether lines 1040-1051 get a probability for class 1 out of the classifier
CanScore(clf) == clf.has_predict_proba /\ "1" \in clf.classes /\ "0" \in clf.classes

\* the risk score of lines 1062-1064, for a probability in thousandths
RiskScore(p) == Max(0, Min(100, p \div 10))

\* the response of lines 1090-1098
PredictionResult(q, p) ==
    [NoResponse EXCEPT
        !.status = 200,
        !.is_at_risk = (p > 500),
        !.probability = p,
        !.risk_score = RiskScore(p),
        !.risk_level = suggest_interventions(RiskScore(p)),
        !.model_used = q.requested_model_id,
        !.scored_by = q.current_model.of,
        !.schema_of = q.current_features.of]

\* lines 1012-1121: validate, preprocess, score, answer; nothing here reads the
\* shared registry, and the only write is the restore of the saved pointer
PredictScore(r, probs) ==
    /\ reqs[r].kind = "predict" /\ reqs[r].pc = "score"
    /\ LET q == reqs[r]
           restored == Restore(q)
       IN  IF validate_input_data(q.body.data) # "ok"
           THEN /\ Respond(r, ErrorResponse(400, "Invalid input data"))
                /\ current_model_type' = restored.current_model_type
                /\ feature_names' = restored.feature_names
           ELSE IF preprocess_student_data_for_prediction(q.body.data,
                                                          q.current_features) # "ok"
           THEN /\ Respond(r, ErrorResponse(422, "Data preprocessing failed"))
                /\ current_model_type' = restored.current_model_type
                /\ feature_names' = restored.feature_names
           ELSE IF ~CanScore(q.current_model)
           \* lines 1052-1058 answer 500 and do not restore
           THEN /\ Respond(r, ErrorResponse(500, "Prediction failed"))
                /\ UNCHANGED <<current_model_type, feature_names>>
           ELSE IF q.requested_model_id \notin AvailableIds
           \* KeyError on AVAILABLE_MODELS[requested_model_id]['name'], caught at 1112
           THEN /\ Respond(r, ErrorResponse(500, "Internal server error"))
                /\ current_model_type' = restored.current_model_type
                /\ feature_names' = restored.feature_names
           ELSE /\ \E p \in probs : Respond(r, PredictionResult(q, p))
                /\ current_model_type' = restored.current_model_type
                /\ feature_names' = restored.feature_names
    /\ UNCHANGED <<ENABLE_MULTI_MODEL, disk, models, phase, load_failed, quiet>>

\* the response is sent and the worker is free again; when that leaves the
\* server quiet after requests that never overlapped, there is nothing to
\* remember of them
Return(r) ==
    /\ reqs[r].pc = "done"
    /\ reqs' = [reqs EXCEPT ![r] = Idle]
    /\ quiet' = IF ~quiet.overlapped /\ \A o \in Workers \ {r} : reqs[o].kind = "idle"
                THEN QuietAt(current_model_type)
                ELSE quiet
    /\ UNCHANGED <<ENABLE_MULTI_MODEL, disk, registry, phase, load_failed>>

predict(r, bodies, probs) ==
    \/ AcceptPredict(r, bodies)
    \/ PredictCheck(r)
    \/ PredictGetJson(r)
    \/ PredictSaveOriginal(r)
    \/ PredictCompare(r)
    \/ PredictSwitch(r)
    \/ PredictGetModel(r)
    \/ PredictGetFeatures(r)
    \/ PredictScore(r, probs)

----------------------------------------------------------------------------
(* POST /api/models/current and GET /api/health: each touches the registry *)
(* once, so the whole handler is one step.                                 *)

SwitchBodies == {Body(TRUE, DictNoCourses(m)) : m \in ModelIdChoices} \cup {NoBody}

\* the route set_current_model (lines 129-168)
set_current_model_route(r, bodies) ==
    /\ phase = "serving"
    /\ reqs[r].kind = "idle"
    /\ \E b \in bodies :
        /\ NoteAccepted("switch", b)
        /\ LET res == set_current_model(models, current_model_type, feature_names,
                                        b.data.model_id)
               answered(resp, read) ==
                   reqs' = [reqs EXCEPT ![r] =
                               [Idle EXCEPT !.kind = "switch", !.pc = "done", !.body = b,
                                            !.start_ptr = current_model_type,
                                            !.body_read = read, !.response = resp]]
           IN  IF ~ENABLE_MULTI_MODEL
               THEN /\ answered(ErrorResponse(400, "Model switching disabled"), FALSE)
                    /\ UNCHANGED <<current_model_type, feature_names>>
               ELSE IF ~b.json_ok
               THEN /\ answered(ErrorResponse(500, "Failed to set model"), TRUE)
                    /\ UNCHANGED <<current_model_type, feature_names>>
               ELSE IF b.data.model_id = "absent"
               THEN /\ answered(ErrorResponse(400, "Invalid request"), TRUE)
                    /\ UNCHANGED <<current_model_type, feature_names>>
               ELSE IF res.ok
               THEN /\ answered([NoResponse EXCEPT !.status = 200,
                                                   !.model_used = res.current_model_type], TRUE)
                    /\ current_model_type' = res.current_model_type
                    /\ feature_names' = res.feature_names
               ELSE /\ answered(ErrorResponse(404, "Invalid model"), TRUE)
                    /\ current_model_type' = res.current_model_type
                    /\ feature_names' = res.feature_names
    /\ UNCHANGED <<ENABLE_MULTI_MODEL, disk, models, phase, load_failed>>

\* health_check (lines 83-98)
health_check(r) ==
    /\ phase = "serving"
    /\ reqs[r].kind = "idle"
    /\ reqs' = [reqs EXCEPT ![r] =
                  [Idle EXCEPT !.kind = "health", !.pc = "done",
                               !.start_ptr = current_model_type,
                               !.response =
                                  [NoResponse EXCEPT
                                      !.status = 200,
                                      !.health = "healthy",
                                      !.model_loaded =
                                          (get_current_model(models, current_model_type)
                                              # NoModel),
                                      !.model_used = current_model_type]]]
    /\ NoteAccepted("health", NoBody)
    /\ UNCHANGED <<ENABLE_MULTI_MODEL, disk, registry, phase, load_failed>>

----------------------------------------------------------------------------
(* POST /api/predict/csv: the bulk pipeline runs outside the registry; the *)
(* handler only checks that a model is loaded before it starts.            *)

\* the bucket thresholds, as probabilities in ten-thousandths
HighThreshold == 7000

MediumThreshold == 5500

LowThreshold == 4500

\* the rows of a boolean mask over risk_probs (lines 1418-1421)
high_mask(risk_probs) ==
    {k \in 1..Len(risk_probs) : risk_probs[k] >= HighThreshold}

medium_mask(risk_probs) ==
    {k \in 1..Len(risk_probs) :
        risk_probs[k] >= MediumThreshold /\ risk_probs[k] < HighThreshold}

low_mask(risk_probs) ==
    {k \in 1..Len(risk_probs) :
        risk_probs[k] >= LowThreshold /\ risk_probs[k] < MediumThreshold}

minimal_mask(risk_probs) ==
    {k \in 1..Len(risk_probs) : risk_probs[k] < LowThreshold}

\* lines 1423-1428
bucket_counts(risk_probs) ==
    [high |-> Cardinality(high_mask(risk_probs)),
     medium |-> Cardinality(medium_mask(risk_probs)),
     low |-> Cardinality(low_mask(risk_probs)),
     minimal |-> Cardinality(minimal_mask(risk_probs))]

\* a label function whose first test is strict
bucket_label_strict(p) ==
    IF p > HighThreshold THEN "high"
    ELSE IF p >= MediumThreshold THEN "medium"
    ELSE IF p >= LowThreshold THEN "low"
    ELSE "minimal"

\* lines 1433-1437
bucket_label(p) ==
    IF p >= HighThreshold THEN "high"
    ELSE IF p >= MediumThreshold THEN "medium"
    ELSE IF p >= LowThreshold THEN "low"
    ELSE "minimal"

\* the response of lines 1395-1477 for the at-risk probabilities of the rows
\* the pipeline returned
CsvResponse(risk_probs) ==
    [NoResponse EXCEPT
        !.status = 200,
        !.risk_probs = risk_probs,
        !.risk_bucket = [k \in 1..Len(risk_probs) |-> bucket_label(risk_probs[k])],
        !.risk_bucket_counts = bucket_counts(risk_probs)]

\* rowsets: the probability columns the pipeline may return
predict_from_csv(r, rowsets) ==
    /\ phase = "serving"
    /\ reqs[r].kind = "idle"
    /\ LET answered(resp, read) ==
               reqs' = [reqs EXCEPT ![r] =
                           [Idle EXCEPT !.kind = "csv", !.pc = "done",
                                        !.start_ptr = current_model_type,
                                        !.body_read = read, !.response = resp]]
       IN  IF \/ get_current_model(models, current_model_type) = NoModel
              \/ get_current_feature_names(models, current_model_type, feature_names)
                    = NoSchema
           THEN answered(ErrorResponse(503, "Model not available"), FALSE)
           \* ml.predict missing (503), the pipeline failing (500) or succeeding
           ELSE \/ answered(ErrorResponse(503, "Prediction pipeline not available"), FALSE)
                \/ answered(ErrorResponse(500, "Prediction pipeline failed"), TRUE)
                \/ \E risk_probs \in rowsets : answered(CsvResponse(risk_probs), TRUE)
    /\ NoteAccepted("csv", NoBody)
    /\ UNCHANGED <<ENABLE_MULTI_MODEL, disk, registry, phase, load_failed>>

----------------------------------------------------------------------------
(* POST /api/predict/batch.                                                *)

StudentGood(sid) == Json("dict", "absent", TRUE, TRUE, <<CourseWith(1)>>, "absent", sid)

\* a student whose "courses" holds a course with a non-list "assignments"
StudentMalformed(sid) ==
    Json("dict", "absent", TRUE, TRUE, <<CourseAssignmentsNotList>>, "absent", sid)

StudentEmptyDict == Json("dict", "absent", FALSE, FALSE, << >>, "absent", "absent")

StudentKinds ==
    {StudentGood("A"), StudentMalformed("B"), StudentEmptyDict}
        \cup {NonDict(t) : t \in {"str", "list", "number", "null"}}

\* the body of a batch request: the parsed JSON and its "students" key
BatchBody(json_ok, type, has_students, students_is_list, students) ==
    [json_ok |-> json_ok, type |-> type, has_students |-> has_students,
     students_is_list |-> students_is_list, students |-> students]

\* one student per outcome of the loop body: predicted, recorded as failed,
\* and not a JSON object
MixedKinds == {StudentGood("A"), StudentMalformed("B"), NonDict("null")}

\* three students of which the second, or the first and the last, fail
ExampleBatches ==
    {<<StudentGood("A"), StudentMalformed("B"), StudentGood("C")>>,
     <<StudentEmptyDict, StudentGood("A"), StudentEmptyDict>>}

\* the "students" arrays of the enumerated bodies: empty, one student of any
\* kind, the mixtures up to MaxStudents, the examples, and arrays of 100 and
\* 101 students
StudentLists ==
    {<< >>} \cup {<<k>> : k \in StudentKinds} \cup ExampleBatches
        \cup UNION {[1..n -> MixedKinds] : n \in 2..MaxStudents}
        \cup {[i \in 1..n |-> StudentGood("A")] : n \in {MaxBatch, MaxBatch + 1}}

BatchBodies ==
    {BatchBody(TRUE, "dict", TRUE, TRUE, ss) : ss \in StudentLists}
        \cup {BatchBody(FALSE, "null", FALSE, FALSE, << >>),
              BatchBody(TRUE, "list", FALSE, FALSE, << >>),
              BatchBody(TRUE, "dict", FALSE, FALSE, << >>),
              BatchBody(TRUE, "dict", TRUE, FALSE, << >>)}

\* the body of the loop (lines 1195-1232) for the student at index i (from 0):
\* "ok" with a result entry, "failed" with an error entry, or "raise" when the
\* except block itself raises (student_data.get on a value that is no dict)
ProcessStudent(i, student, clf, schema, p) ==
    LET error ==
            IF validate_input_data(student) # "ok"
            THEN validate_input_data(student)
            ELSE IF preprocess_student_data_for_prediction(student, schema) # "ok"
            THEN preprocess_student_data_for_prediction(student, schema)
            ELSE IF ~clf.has_predict_proba THEN "no attribute predict_proba"
            ELSE IF "1" \notin clf.classes THEN "1 is not in list"
            ELSE "None"
        sid == IF student.studentId = "absent"
               THEN "student_" \o ToString(i) ELSE student.studentId
    IN  IF error = "None"
        THEN [outcome |-> "ok",
              entry |-> [studentId |-> sid, is_at_risk |-> (p > 500),
                         probability |-> p, risk_score |-> p \div 10]]
        ELSE IF student.type = "dict"
        THEN [outcome |-> "failed", entry |-> [studentId |-> sid, error |-> error]]
        ELSE [outcome |-> "raise", entry |-> [studentId |-> "None", error |-> error]]

\* a loop that keeps no entry for a student whose turn failed
BatchLoopDropsFailures(students, clf, schema, probs) ==
    LET turns == [k \in 1..Len(students) |->
                    ProcessStudent(k - 1, students[k], clf, schema,
                                   probs[((k - 1) % Len(probs)) + 1])]
        kept == SelectSeq(turns, LAMBDA t : t.outcome = "ok")
    IN  [raised |-> \E k \in 1..Len(students) : turns[k].outcome = "raise",
         results |-> [k \in 1..Len(kept) |-> kept[k].entry],
         failed |-> << >>]

\* the for loop over the students: what each student's turn gives, in input
\* order; the loop is left at the first turn that raises
BatchLoop(students, clf, schema, probs) ==
    LET turns == [k \in 1..Len(students) |->
                    ProcessStudent(k - 1, students[k], clf, schema,
                                   probs[((k - 1) % Len(probs)) + 1])]
        entries(outcome) ==
            LET kept == SelectSeq(turns, LAMBDA t : t.outcome = outcome)
            IN  [k \in 1..Len(kept) |-> kept[k].entry]
    IN  [raised |-> \E k \in 1..Len(students) : turns[k].outcome = "raise",
         results |-> entries("ok"),
         failed |-> entries("failed")]

CountAtRisk(results) == Cardinality({k \in 1..Len(results) : results[k].is_at_risk})

\* the response of lines 1234-1257; at_risk_percentage is the quotient
\* num / den of the float division
BatchResponse(results, failed) ==
    [NoResponse EXCEPT
        !.status = 200,
        !.predictions = results,
        !.failed_predictions = failed,
        !.summary = [total_students |-> Len(results),
                     successful_predictions |-> Len(results),
                     failed_predictions |-> Len(failed),
                     at_risk_count |-> CountAtRisk(results),
                     at_risk_percentage |->
                        IF Len(results) > 0
                        THEN [num |-> CountAtRisk(results) * 100, den |-> Len(results)]
                        ELSE [num |-> 0, den |-> 1]]]

AcceptBatch(r, bodies) ==
    /\ phase = "serving"
    /\ reqs[r].kind = "idle"
    /\ \E b \in bodies :
          /\ reqs' = [reqs EXCEPT ![r] =
                         [Idle EXCEPT !.kind = "batch", !.pc = "get_model", !.body = b,
                                      !.start_ptr = current_model_type]]
          /\ NoteAccepted("batch", b)
    /\ UNCHANGED <<ENABLE_MULTI_MODEL, disk, registry, phase, load_failed>>

\* line 1144
BatchGetModel(r) ==
    /\ reqs[r].kind = "batch" /\ reqs[r].pc = "get_model"
    /\ reqs' = [reqs EXCEPT ![r].pc = "get_features",
                   ![r].current_model = get_current_model(models, current_model_type)]
    /\ UNCHANGED <<ENABLE_MULTI_MODEL, disk, registry, phase, load_failed, quiet>>

\* lines 1145-1152
BatchGetFeatures(r) ==
    /\ reqs[r].kind = "batch" /\ reqs[r].pc = "get_features"
    /\ LET fs == get_current_feature_names(models, current_model_type, feature_names)
       IN  IF reqs[r].current_model = NoModel \/ fs = NoSchema
           THEN reqs' = [reqs EXCEPT ![r].pc = "done", ![r].current_features = fs,
                            ![r].response = ErrorResponse(503, "Model not available")]
           ELSE reqs' = [reqs EXCEPT ![r].pc = "run", ![r].current_features = fs]
    /\ UNCHANGED <<ENABLE_MULTI_MODEL, disk, registry, phase, load_failed, quiet>>

\* the batch handler with the size test "len(students) >= 100"
BatchRunCapOffByOne(r, probs) ==
    /\ reqs[r].kind = "batch" /\ reqs[r].pc = "run"
    /\ LET q == reqs[r]
           b == q.body
           answered(resp) ==
               reqs' = [reqs EXCEPT ![r].pc = "done", ![r].body_read = TRUE,
                                    ![r].response = resp]
       IN  IF ~b.json_ok THEN answered(ErrorResponse(400, "Invalid JSON"))
           ELSE IF b.type # "dict" \/ ~b.has_students \/ ~b.students_is_list
                   \/ Len(b.students) = 0
           THEN answered(ErrorResponse(400, "Invalid input data"))
           ELSE IF Len(b.students) >= MaxBatch
           THEN answered(ErrorResponse(400, "Batch size too large"))
           ELSE \E ps \in [1..Min(Len(b.students), MaxStudents + 1) -> probs] :
                  LET out == BatchLoop(b.students, q.current_model,
                                       q.current_features, ps)
                  IN  IF out.raised
                      THEN answered(ErrorResponse(500, "Internal server error"))
                      ELSE answered(BatchResponse(out.results, out.failed))
    /\ UNCHANGED <<ENABLE_MULTI_MODEL, disk, registry, phase, load_failed, quiet>>

\* lines 1154-1265: the body is read and checked and every student processed
\* with the classifier and schema read above
BatchRun(r, probs) ==
    /\ reqs[r].kind = "batch" /\ reqs[r].pc = "run"
    /\ LET q == reqs[r]
           b == q.body
           answered(resp) ==
               reqs' = [reqs EXCEPT ![r].pc = "done", ![r].body_read = TRUE,
                                    ![r].response = resp]
       IN  IF ~b.json_ok THEN answered(ErrorResponse(400, "Invalid JSON"))
           ELSE IF b.type # "dict" \/ ~b.has_students \/ ~b.students_is_list
                   \/ Len(b.students) = 0
           THEN answered(ErrorResponse(400, "Invalid input data"))
           ELSE IF Len(b.students) > MaxBatch
           THEN answered(ErrorResponse(400, "Batch size too large"))
           ELSE \E ps \in [1..Min(Len(b.students), MaxStudents + 1) -> probs] :
                  LET out == BatchLoop(b.students, q.current_model,
                                       q.current_features, ps)
                  IN  IF out.raised
                      THEN answered(ErrorResponse(500, "Internal server error"))
                      ELSE answered(BatchResponse(out.results, out.failed))
    /\ UNCHANGED <<ENABLE_MULTI_MODEL, disk, registry, phase, load_failed, quiet>>

predict_batch(r, bodies, probs) ==
    \/ AcceptBatch(r, bodies)
    \/ BatchGetModel(r)
    \/ BatchGetFeatures(r)
    \/ BatchRun(r, probs)

----------------------------------------------------------------------------
(* The extractor call of a handler (lines 1027 and 1200): a payload whose  *)
(* courses is a list and the list that features.pkl of the served bundle   *)
(* holds go in, a row or a PreprocessingError comes out.  The worker keeps *)
(* what went in and what came out, next to what the extractor of           *)
(* backend/app.py makes of the same input.                                 *)

Preprocess(r, payloads, schemas) ==
    /\ phase = "serving"
    /\ reqs[r].kind = "idle"
    /\ current_model_type \in DOMAIN models
    /\ models[current_model_type].feature_names.is_list
    /\ \E data \in payloads, names \in schemas :
          reqs' = [reqs EXCEPT ![r] =
                     [Idle EXCEPT
                        !.kind = "extract", !.pc = "done",
                        !.start_ptr = current_model_type,
                        !.body_read = TRUE,
                        !.response = [NoResponse EXCEPT
                           !.model_used = current_model_type,
                           !.extraction =
                              [months_required |->
                                  models[current_model_type].config.months_required,
                               names |-> names,
                               data |-> data,
                               result |-> processed_data(data, names),
                               legacy |-> legacy_processed_data(data, names)]]]]
    /\ NoteAccepted("extract", NoBody)
    /\ UNCHANGED <<ENABLE_MULTI_MODEL, disk, registry, phase, load_failed>>

----------------------------------------------------------------------------
(* create_monthly_student_scores_with_time (ml/pre_processing.py): the     *)
(* monthly table of the bulk pipeline.  A date is [m, d], day d of month m *)
(* of the dataset; a dataset is one course [startDate, endDate] and the    *)
(* rows of studentAssignments.csv that carry a submission date, each       *)
(* [studentId, submissionDate, score, time, isLate].                       *)

MaxBulkMonths == 3

MaxBulkSubmissions == 2

DateLeq(a, b) == a.m < b.m \/ (a.m = b.m /\ a.d <= b.d)

\* Step 4: a row is kept when month_year_date, the first day of the month of
\* its submission, lies between startDate and endDate
active_assignments(ds) ==
    SelectSeq(ds.submissions,
              LAMBDA s : /\ DateLeq(ds.startDate, [m |-> s.submissionDate.m, d |-> 1])
                         /\ DateLeq([m |-> s.submissionDate.m, d |-> 1], ds.endDate))

\* one (studentId, courseId) group of the kept rows
group(ds, studentId) ==
    SelectSeq(active_assignments(ds), LAMBDA s : s.studentId = studentId)

\* late rows over all rows of a non-empty group
late_submission_rate(g) ==
    RDiv(OfInt(Len(SelectSeq(g, LAMBDA s : s.isLate))), OfInt(Len(g)))

\* Step 6: for every month in which the group has a row, the running average
\* after the last row of that month and the time spent in that month
monthly_stats(g) ==
    [m \in {g[k].submissionDate.m : k \in 1..Len(g)} |->
        LET upto == SelectSeq(g, LAMBDA s : s.submissionDate.m <= m)
            inMonth == SelectSeq(g, LAMBDA s : s.submissionDate.m = m)
        IN  [cumulative_score |-> RMean([k \in 1..Len(upto) |-> OfInt(upto[k].score)]),
             monthly_time |-> RSum([k \in 1..Len(inMonth) |-> OfInt(inMonth[k].time)])]]

\* Steps 7 to 9: the pivot tables with fill_value = 0, their month columns
\* sorted and renamed Score_Month_i / TimeSpent_Month_i, one row per group
create_monthly_student_scores_with_time(ds) ==
    LET active == active_assignments(ds)
        students == {active[k].studentId : k \in 1..Len(active)}
        months == {active[k].submissionDate.m : k \in 1..Len(active)}
        cols == SelectSeq([m \in 1..MaxBulkMonths |-> m], LAMBDA m : m \in months)
        cell(st, m, field) ==
            LET stats == monthly_stats(group(ds, st))
            IN  IF m \in DOMAIN stats THEN stats[m][field] ELSE Zero
    IN  [dataset |-> ds,
         active |-> active,
         month_year |-> cols,
         rows |-> [st \in students |->
                     [late_submission_rate |-> late_submission_rate(group(ds, st)),
                      Score_Month |->
                          [i \in 1..Len(cols) |-> cell(st, cols[i], "cumulative_score")],
                      TimeSpent_Month |->
                          [i \in 1..Len(cols) |-> cell(st, cols[i], "monthly_time")]]]]

\* the datasets tried: a course that starts on the 1st or the 15th of month 1
\* and ends on the 15th of month 2 or the 28th of the last month, and up to
\* MaxBulkSubmissions rows of two students, dated the 1st or the 20th
BulkDatasets ==
    LET rows == [studentId : {"s1", "s2"},
                 submissionDate : [m : 1..MaxBulkMonths, d : {1, 20}],
                 score : {40, 80}, time : {30}, isLate : BOOLEAN]
    IN  [startDate : {[m |-> 1, d |-> 1], [m |-> 1, d |-> 15]},
         endDate : {[m |-> 2, d |-> 15], [m |-> MaxBulkMonths, d |-> 28]},
         submissions : UNION {[1..n -> rows] : n \in 1..MaxBulkSubmissions}]

\* one run of the function on a dataset
CreateMonthlyScores(r, datasets) ==
    /\ reqs[r].kind = "idle"
    /\ \E ds \in datasets :
          reqs' = [reqs EXCEPT ![r] =
                     [Idle EXCEPT
                        !.kind = "bulk", !.pc = "done",
                        !.start_ptr = current_model_type,
                        !.response = [NoResponse EXCEPT
                           !.extraction = create_monthly_student_scores_with_time(ds)]]]
    /\ NoteAccepted("bulk", NoBody)
    /\ UNCHANGED <<ENABLE_MULTI_MODEL, disk, registry, phase, load_failed>>

----------------------------------------------------------------------------
(* The server handling one request at a time.                              *)

\* the probability columns of the bulk pipeline in the sequential server
CsvRows == {<< >>, <<7000, 4499>>}

Next ==
    \/ load_model_and_features
    \/ predict(1, PredictBodies, Probabilities)
    \/ predict_batch(1, BatchBodies, BatchProbabilities)
    \/ predict_from_csv(1, CsvRows)
    \/ set_current_model_route(1, SwitchBodies)
    \/ health_check(1)
    \/ Return(1)

Spec == Init /\ [][Next]_vars

----------------------------------------------------------------------------
(* The threaded server: MaxWorkers requests in flight at once, their steps *)
(* interleaved in any order.  The disks are those of a multi-model         *)
(* deployment with sound bundles in at most the folders 1_3, 1_6 and the   *)
(* flat legacy files.                                                      *)

ConcModelIds == {"absent", "1_3", "1_6", "legacy"}

ConcPredictBodies ==
    {Body(TRUE, Dict(m, <<CourseWith(1)>>, "absent")) : m \in ConcModelIds}
        \cup {Body(TRUE, Dict("absent", << >>, "absent"))}

ConcSwitchBodies == {Body(TRUE, DictNoCourses(m)) : m \in {"1_3", "1_6", "bogus"}}

ConcProbabilities == {706}

ConcBatchBodies == {BatchBody(TRUE, "dict", TRUE, TRUE, <<StudentGood("A")>>)}

InitConc ==
    /\ Init
    /\ ENABLE_MULTI_MODEL
    /\ Defective(disk) = {}
    /\ disk["1_9"] = "absent"
    /\ disk["1_12"] = "absent"

NextConc ==
    \/ load_model_and_features
    \/ \E r \in Workers :
          \/ predict(r, ConcPredictBodies, ConcProbabilities)
          \/ predict_batch(r, ConcBatchBodies, ConcProbabilities)
          \/ set_current_model_route(r, ConcSwitchBodies)
          \/ Return(r)

SpecConc == InitConc /\ [][NextConc]_vars

----------------------------------------------------------------------------
(* The bulk pipeline alone: every column of at most MaxRows probabilities  *)
(* around the bucket boundaries, in ten-thousandths.                       *)

BucketGrid == {0, 4490, 4500, 5490, 5500, 6999, 7000, 10000}

CsvRowLists == UNION {[1..n -> BucketGrid] : n \in 0..MaxRows}

InitCsv == Init /\ Defective(disk) = {}

NextCsv ==
    \/ load_model_and_features
    \/ predict_from_csv(1, CsvRowLists)
    \/ Return(1)

SpecCsv == InitCsv /\ [][NextCsv]_vars

----------------------------------------------------------------------------
(* The extractor alone, on the bundles of a sound models directory.        *)

\* submissions: a scored one, a zero one, a late one with a refund of time,
\* and one whose score float() refuses
Good80 == Submission(Num(80), Num(30), FALSE)

Good20 == Submission(Num(20), Num(10), TRUE)

SubmissionKinds ==
    {Good80, Good20,
     Submission(Num(0), Num(0), FALSE),
     Submission(Num(60), Num(0 - 10), TRUE),
     Submission(Special("bad"), Num(30), FALSE)}

\* one course with every list of at most MaxSubmissions submissions
ShortCourses ==
    {<<Course(as)>> : as \in UNION {[1..n -> SubmissionKinds] : n \in 1..MaxSubmissions}}

\* courses that run past the third, the sixth and the seventh index
LongCourses ==
    {<<Course(<<Good80, Good80, Good80, Good20>>)>>,
     <<Course(<<Good80, Good20, Good80, Good20, Good80, Good20, Good20>>)>>,
     <<Course(<<Good80, Good20>>), Course(<<Good20>>)>>,
     <<[kind |-> "not_list", assignments |-> << >>], Course(<<Good80>>)>>}

OverrideValues == {Absent, Num(0), Num(50), Num(150), Special("bad"), Special("nan")}

GradeValues ==
    {Absent, Num(9), Special("none"), Special("bad"), Special("nan"), Special("inf")}

ExtractPayloads ==
    {Payload(cs, Absent, Absent, Absent) : cs \in ShortCourses \cup LongCourses \cup {<< >>}}
    \cup {Payload(cs, avg, rate, grade) :
            cs \in {<<Course(<<Good80>>)>>, <<Course(<<Submission(Num(0), Num(0), FALSE)>>)>>},
            avg \in OverrideValues, rate \in OverrideValues, grade \in {Absent, Num(9)}}
    \cup {Payload(<<Course(<<Good80>>)>>, Absent, Absent, grade) : grade \in GradeValues}

MonthColumns(H) ==
    [k \in 1..(2 * H) |-> IF k <= H THEN MonthName("Score_Month_", k)
                          ELSE MonthName("TimeSpent_Month_", k - H)]

Scalars == <<"totalTimeSpentMinutes", "gradeLevel", "late_submission_rate">>

Derived(nm) ==
    <<nm.avg_score, nm.avg_time, nm.score_variance, nm.time_variance,
      nm.time_score_ratio, nm.engagement, nm.weighted_score, nm.score_trend>>

\* lists features.pkl may hold: the columns of a 3-, 6- and 12-month
\* training run, the early_* family, and a list naming both families and a
\* column nobody computes
ExtractSchemas ==
    {MonthColumns(3) \o Scalars \o Derived(ApiNames),
     MonthColumns(6) \o Scalars \o Derived(ApiNames),
     MonthColumns(12) \o <<ApiNames.engagement>>,
     MonthColumns(3) \o Scalars \o Derived(LegacyNames),
     <<"attendance", LegacyNames.avg_score, ApiNames.avg_score, ApiNames.time_score_ratio>>}

InitExtract == Init /\ Defective(disk) = {}

NextExtract ==
    \/ load_model_and_features
    \/ Preprocess(1, ExtractPayloads, ExtractSchemas)
    \/ Return(1)

SpecExtract == InitExtract /\ [][NextExtract]_vars

----------------------------------------------------------------------------
(* Start-up alone, over model directories with missing or empty files.     *)

InitLoad ==
    /\ ENABLE_MULTI_MODEL \in BOOLEAN
    /\ disk \in [DiskSlots -> {"absent", "ok", "no_classifier", "no_schema",
                               "empty_schema", "no_scaler"}]
    /\ ~ENABLE_MULTI_MODEL => \A id \in AvailableIds : disk[id] = "absent"
    /\ models = EmptyModels
    /\ current_model_type = DefaultModelType
    /\ feature_names = NoSchema
    /\ phase = "startup"
    /\ load_failed = FALSE
    /\ reqs = [r \in Workers |-> Idle]
    /\ quiet = QuietAt(DefaultModelType)

NextLoad ==
    \/ load_model_and_features
    \/ health_check(1)
    \/ Return(1)

SpecLoad == InitLoad /\ [][NextLoad]_vars

----------------------------------------------------------------------------
(* The monthly table of the bulk pipeline alone.                           *)

NextBulk ==
    \/ CreateMonthlyScores(1, BulkDatasets)
    \/ Return(1)

SpecBulk == InitConc /\ [][NextBulk]_vars

----------------------------------------------------------------------------
(* Properties.                                                             *)

Done(r, kind) == reqs[r].kind = kind /\ reqs[r].pc = "done"

Loaded == DOMAIN models

\* a payload that passes the shape rules of section 6 of the specification:
\* an object whose courses is a non-empty array of objects, each with an
\* assignments array, and whose numeric fields are numbers
RECURSIVE AllCoursesHaveLists(_)
AllCoursesHaveLists(courses) ==
    \/ courses = << >>
    \/ /\ Head(courses) \in {CourseWith(n) : n \in 0..MaxAssignments}
       /\ AllCoursesHaveLists(Tail(courses))

WellFormed(data) ==
    /\ data.type = "dict"
    /\ data.has_courses /\ data.courses_is_list
    /\ Len(data.courses) >= 1
    /\ AllCoursesHaveLists(data.courses)
    /\ data.numeric # "bad"

\* the assignments a payload holds across its courses
TotalAssignments(data) ==
    IF data.type = "dict" /\ data.has_courses /\ data.courses_is_list
    THEN SumAssignments(data.courses) ELSE 0

\* every loaded bundle has a classifier with predict_proba and the class
\* labels 0 and 1, and a list schema
AllBundlesSound ==
    \A id \in Loaded :
        /\ models[id].model.has_predict_proba
        /\ {"0", "1"} \subseteq models[id].model.classes
        /\ models[id].feature_names.is_list

\* the request names no model, or a loaded one
NamesNoneOrLoaded(data) == data.model_id = "absent" \/ data.model_id \in Loaded

\* C1: a /api/predict call whose model_id names a loaded bundle other than
\* the active one leaves the active pointer, when it returns, at the value it
\* had when the call started, whatever the call answers.
C1_OverrideRestoresPointer ==
    \A r \in Workers :
        (Done(r, "predict") /\ IsOverride("predict", reqs[r].body, reqs[r].start_ptr))
            => current_model_type = reqs[r].start_ptr

\* C2: when overlapping /api/predict calls that all carry an override, with no
\* POST /api/models/current among them, have all returned, the active pointer
\* is what it was before the first of them started.
C2_ConcurrentOverridesRestorePointer ==
    (~Busy /\ quiet.overrides_only /\ quiet.overlapped /\ quiet.no_switch)
        => current_model_type = quiet.ptr

\* C3: a /api/predict call that answers 200 was scored by the bundle it
\* resolved: the one its model_id names, else the persistent active bundle;
\* model_used names the bundle that scored it.  (No POST /api/models/current
\* among the overlapping requests, so the persistent pointer is quiet.ptr.)
C3_ScoredByResolvedBundle ==
    \A r \in Workers :
        (Done(r, "predict") /\ reqs[r].response.status = 200 /\ quiet.no_switch)
            => /\ reqs[r].response.scored_by =
                    (IF reqs[r].body.data.model_id # "absent"
                     THEN reqs[r].body.data.model_id ELSE quiet.ptr)
               /\ reqs[r].response.model_used = reqs[r].response.scored_by

\* the step is a call of the helper set_current_model(id) by the route
CallsSetCurrentModel(r) ==
    /\ reqs[r].kind = "idle"
    /\ reqs'[r].kind = "switch"
    /\ reqs'[r].body_read
    /\ reqs'[r].body.json_ok
    /\ reqs'[r].body.data.model_id # "absent"

\* C4: set_current_model(id) succeeds and moves the active pointer (and the
\* current feature schema) to id exactly when id is a loaded bundle; for any
\* other id it fails and leaves both unchanged; no request changes the set of
\* loaded bundles.
C4_SetCurrentModel ==
    [][/\ phase = "serving" => models' = models
       /\ \A r \in Workers :
            CallsSetCurrentModel(r) =>
                LET id == reqs'[r].body.data.model_id
                IN  IF id \in Loaded
                    THEN /\ reqs'[r].response.status = 200
                         /\ current_model_type' = id
                         /\ feature_names' = models[id].feature_names
                    ELSE /\ reqs'[r].response.status = 404
                         /\ current_model_type' = current_model_type
                         /\ feature_names' = feature_names]_vars

\* a persistent switch to a loaded bundle other than the active one has succeeded
C4_Witness ==
    \E r \in Workers :
        /\ Done(r, "switch")
        /\ reqs[r].response.status = 200
        /\ reqs[r].body.data.model_id # reqs[r].start_ptr
        /\ current_model_type = reqs[r].body.data.model_id

\* the body of a batch request holds a students array of 1 to 100 items
BatchInRange(b) ==
    /\ b.json_ok /\ b.type = "dict" /\ b.has_students /\ b.students_is_list
    /\ Len(b.students) >= 1 /\ Len(b.students) <= MaxBatch

\* C5: with a bundle loaded, a batch of 1 to 100 items never fails as a whole
\* because of an item: it answers 200 and every item is either predicted or
\* listed in failed_predictions.
C5_BatchItemFailuresAreIsolated ==
    \A r \in Workers :
        (Done(r, "batch") /\ Loaded # {} /\ BatchInRange(reqs[r].body))
            => /\ reqs[r].response.status = 200
               /\ Len(reqs[r].response.predictions)
                    + Len(reqs[r].response.failed_predictions)
                        = Len(reqs[r].body.students)

\* C6: with sound bundles loaded, a well-formed payload with at least one
\* assignment, naming no model or a loaded one, gets a Prediction Result.
C6_WellFormedPayloadIsScored ==
    \A r \in Workers :
        (/\ Done(r, "predict")
         /\ Loaded # {} /\ AllBundlesSound
         /\ reqs[r].body.json_ok
         /\ WellFormed(reqs[r].body.data)
         /\ TotalAssignments(reqs[r].body.data) >= 1
         /\ NamesNoneOrLoaded(reqs[r].body.data))
            => reqs[r].response.status = 200

\* C7: for a loaded bundle id, validate_data_for_model rejects with
\* (False, 0, reason) exactly when the payload holds no assignment, and
\* otherwise accepts with min(months_required, max(1, total)) and no message.
C7_ValidateRejectsOnlyZeroAssignments ==
    \A r \in Workers :
        (/\ reqs[r].kind = "predict" /\ reqs[r].pc = "compare"
         /\ reqs[r].requested_model_id \in Loaded)
            => LET id == reqs[r].requested_model_id
                   data == reqs[r].body.data
                   total == TotalAssignments(data)
                   v == validate_data_for_model(ENABLE_MULTI_MODEL, data, id)
               IN  IF total = 0
                   THEN ~v.ok /\ v.months = 0 /\ v.reason # "None"
                   ELSE /\ v.ok
                        /\ v.months = Min(models[id].config.months_required, Max(1, total))
                        /\ v.reason = "None"

\* C8: with a bundle loaded, a well-formed payload without any assignment,
\* naming no model or a loaded one, is answered 422 and never scored.
C8_NoAssignmentsIsRejected ==
    \A r \in Workers :
        (/\ Done(r, "predict")
         /\ Loaded # {}
         /\ reqs[r].body.json_ok
         /\ WellFormed(reqs[r].body.data)
         /\ TotalAssignments(reqs[r].body.data) = 0
         /\ NamesNoneOrLoaded(reqs[r].body.data))
            => /\ reqs[r].response.status = 422
               /\ reqs[r].response.scored_by = "None"

\* loading finds no usable bundle: no enumerated folder in multi-model mode,
\* no flat files in single-model mode
NoUsableBundle ==
    IF ENABLE_MULTI_MODEL
    THEN \A id \in AvailableIds : disk[id] = "absent"
    ELSE disk["flat"] = "absent"

\* C9: when loading finds no usable bundle, ModelLoadError is raised and
\* caught, the process serves, and /api/predict, /api/predict/batch and
\* /api/predict/csv answer 503 without reading the body.
C9_DegradedAnswers503 ==
    (phase = "serving" /\ NoUsableBundle)
        => /\ load_failed
           /\ \A r \in Workers :
                (reqs[r].pc = "done" /\ reqs[r].kind \in {"predict", "batch", "csv"})
                    => reqs[r].response.status = 503 /\ ~reqs[r].body_read

\* a well-formed /api/predict request has been answered 503 in the degraded state
C9_Witness ==
    \E r \in Workers :
        /\ load_failed
        /\ Done(r, "predict")
        /\ reqs[r].body.json_ok
        /\ WellFormed(reqs[r].body.data)
        /\ TotalAssignments(reqs[r].body.data) >= 1
        /\ reqs[r].response.status = 503

\* C10: /api/health reports healthy only when a bundle is loaded; with none
\* loaded its status is not 'healthy' and model_loaded is false.
C10_HealthReportsDegraded ==
    \A r \in Workers :
        Done(r, "health")
            => /\ Loaded = {} => (reqs[r].response.health # "healthy"
                                    /\ ~reqs[r].response.model_loaded)
               /\ reqs[r].response.health = "healthy" => Loaded # {}


\* C11: a /api/predict call that ends with 400 or 422, with or without a
\* model_id override, and any /api/predict/batch call, leaves the registry
\* as it was before the call: the bundles the loader produced and the active
\* pointer the call started with.
C11_ErrorsLeaveRegistry ==
    \A r \in Workers :
        (\/ Done(r, "predict") /\ reqs[r].response.status \in {400, 422}
         \/ Done(r, "batch"))
            => /\ current_model_type = reqs[r].start_ptr
               /\ models = LoadResult(ENABLE_MULTI_MODEL, disk).models

\* a call that had switched to the requested bundle ended with 400 or 422 and
\* the pointer is back
C11_Witness ==
    \E r \in Workers :
        /\ Done(r, "predict")
        /\ reqs[r].response.status \in {400, 422}
        /\ reqs[r].model_switched
        /\ reqs[r].requested_model_id # reqs[r].start_ptr
        /\ current_model_type = reqs[r].start_ptr


\* the id an entry for the student at position k (from 1) carries
ExpectedId(students, k) ==
    IF students[k].type = "dict" /\ students[k].studentId # "absent"
    THEN students[k].studentId
    ELSE "student_" \o ToString(k - 1)

\* the ids of the students at the positions in S, in input order
IdsAt(students, S) ==
    LET at == SelectSeq([k \in 1..Len(students) |-> k], LAMBDA k : k \in S)
    IN  [j \in 1..Len(at) |-> ExpectedId(students, at[j])]

IdsOf(entries) == [j \in 1..Len(entries) |-> entries[j].studentId]

\* predictions and failed_predictions split the students, each in input order
SplitsInOrder(students, predictions, failed) ==
    \E S \in SUBSET (1..Len(students)) :
        /\ IdsOf(predictions) = IdsAt(students, S)
        /\ IdsOf(failed) = IdsAt(students, (1..Len(students)) \ S)

\* the classifier and schema the request read are sound
ServedSound(r) ==
    /\ reqs[r].current_model.has_predict_proba
    /\ {"0", "1"} \subseteq reqs[r].current_model.classes
    /\ reqs[r].current_features.is_list

HasStudentsArray(b) ==
    b.json_ok /\ b.type = "dict" /\ b.has_students /\ b.students_is_list

\* C13: with a bundle loaded, a students array of 1 to 100 items is not
\* refused; an empty array or one of more than 100 items is answered 400 and
\* none of its students is processed or scored.
C13_BatchSize ==
    \A r \in Workers :
        (Done(r, "batch") /\ Loaded # {} /\ HasStudentsArray(reqs[r].body))
            => LET n == Len(reqs[r].body.students)
                   resp == reqs[r].response
               IN  IF n >= 1 /\ n <= 100
                   THEN resp.status # 400
                   ELSE /\ resp.status = 400
                        /\ resp.predictions = << >>
                        /\ resp.failed_predictions = << >>
                        /\ resp.summary = NoResponse.summary

\* an array of 101 students has been refused
C13_Witness ==
    \E r \in Workers :
        /\ Done(r, "batch")
        /\ Loaded # {}
        /\ HasStudentsArray(reqs[r].body)
        /\ Len(reqs[r].body.students) = 101
        /\ reqs[r].response.status = 400


\* round(p * 100) for a probability p in thousandths (no value of the grid
\* lies half-way between two integers)
RoundedPercent(p) == (p + 5) \div 10

\* C14: the risk_score of a /api/predict result and of every entry of a
\* /api/predict/batch result is round(probability * 100), an integer in
\* 0..100.
C14_RiskScoreIsRounded ==
    \A r \in Workers :
        /\ (Done(r, "predict") /\ reqs[r].response.status = 200)
            => /\ reqs[r].response.risk_score = RoundedPercent(reqs[r].response.probability)
               /\ reqs[r].response.risk_score \in 0..100
        /\ (Done(r, "batch") /\ reqs[r].response.status = 200)
            => \A k \in 1..Len(reqs[r].response.predictions) :
                  LET e == reqs[r].response.predictions[k]
                  IN  e.risk_score = RoundedPercent(e.probability) /\ e.risk_score \in 0..100


\* C15: a request served by a bundle whose binary classifier gives
\* probabilities under class labels other than 0 and 1 ('At Risk' /
\* 'Not At Risk') gets a Prediction Result carrying the probability of the
\* at-risk class, instead of a failure.
C15_AtRiskClassIsResolved ==
    \A r \in Workers :
        (/\ Done(r, "predict")
         /\ reqs[r].body.json_ok
         /\ WellFormed(reqs[r].body.data)
         /\ TotalAssignments(reqs[r].body.data) >= 1
         /\ reqs[r].requested_model_id \in AvailableIds \cap Loaded
         /\ reqs[r].current_model.has_predict_proba
         /\ reqs[r].current_model.classes = {"At Risk", "Not At Risk"}
         /\ reqs[r].current_features.is_list)
            => reqs[r].response.status = 200


\* the bucket of a probability (in ten-thousandths) by the stated boundaries
InBucket(b, p) ==
    CASE b = "high" -> p >= 7000
      [] b = "medium" -> p >= 5500 /\ p < 7000
      [] b = "low" -> p >= 4500 /\ p < 5500
      [] b = "minimal" -> p < 4500

Buckets == {"high", "medium", "low", "minimal"}

\* C16: on the bulk-CSV path p >= 0.70 is high, 0.55 <= p < 0.70 medium,
\* 0.45 <= p < 0.55 low and p < 0.45 minimal; every probability is in exactly
\* one bucket, the label of a row is the bucket its mask counts it in, and
\* the four counts add up to the number of rows.
C16_RiskBuckets ==
    \A r \in Workers :
        (Done(r, "csv") /\ reqs[r].response.status = 200)
            => LET ps == reqs[r].response.risk_probs
                   labels == reqs[r].response.risk_bucket
                   counts == reqs[r].response.risk_bucket_counts
               IN  /\ Len(labels) = Len(ps)
                   /\ \A k \in 1..Len(ps) :
                        /\ Cardinality({b \in Buckets : InBucket(b, ps[k])}) = 1
                        /\ labels[k] \in Buckets
                        /\ InBucket(labels[k], ps[k])
                        /\ ps[k] = 7000 => labels[k] = "high"
                        /\ ps[k] = 6999 => labels[k] = "medium"
                        /\ ps[k] = 5500 => labels[k] = "medium"
                        /\ ps[k] = 5490 => labels[k] = "low"
                        /\ ps[k] = 4500 => labels[k] = "low"
                        /\ ps[k] = 4490 => labels[k] = "minimal"
                   /\ counts.high = Cardinality({k \in 1..Len(ps) : labels[k] = "high"})
                   /\ counts.medium = Cardinality({k \in 1..Len(ps) : labels[k] = "medium"})
                   /\ counts.low = Cardinality({k \in 1..Len(ps) : labels[k] = "low"})
                   /\ counts.minimal = Cardinality({k \in 1..Len(ps) : labels[k] = "minimal"})
                   /\ counts.high + counts.medium + counts.low + counts.minimal = Len(ps)

\* rows on both sides of the high boundary and below the low one were bucketed
C16_Witness ==
    \E r \in Workers :
        /\ Done(r, "csv")
        /\ reqs[r].response.status = 200
        /\ reqs[r].response.risk_probs = <<7000, 6999, 4490>>
        /\ reqs[r].response.risk_bucket = <<"high", "medium", "minimal">>
        /\ reqs[r].response.risk_bucket_counts
                = [high |-> 1, medium |-> 1, low |-> 0, minimal |-> 1]


\* an extractor call that has returned or raised
Extracted(r) == reqs[r].kind = "extract" /\ reqs[r].pc = "done"

ExtractionOf(r) == reqs[r].response.extraction

\* the column names an extractor of H months writing under nm fills
Computes(H, nm, name) ==
    \/ \E m \in 1..H : name \in {MonthName("Score_Month_", m), MonthName("TimeSpent_Month_", m)}
    \/ \E k \in 1..Len(Scalars) : name = Scalars[k]
    \/ \E k \in 1..Len(Derived(nm)) : name = Derived(nm)[k]

HasName(names, name) == \E k \in 1..Len(names) : names[k] = name

\* the cell of a returned row under a name of its schema
SlotOf(row, names, name) == row[CHOOSE k \in 1..Len(names) : names[k] = name]

Slot(ex, name) == SlotOf(ex.result.row, ex.names, name)

\* C17: for every non-empty list schema and every validated payload the
\* extractor returns one row as wide as the schema, raises nothing, and leaves
\* 0 under every name it does not compute.
C17_RowMatchesSchema ==
    \A r \in Workers :
        Extracted(r) /\ ExtractionOf(r).names # << >> =>
            LET ex == ExtractionOf(r)
            IN  /\ ex.result.error = "None"
                /\ Len(ex.result.row) = Len(ex.names)
                /\ \A k \in 1..Len(ex.names) :
                      ~Computes(ApiMonths, ApiNames, ex.names[k]) => ex.result.row[k] = Zero


\* a call that returned a row for a payload with courses
Returned(r) ==
    /\ Extracted(r)
    /\ ExtractionOf(r).result.error = "None"
    /\ ExtractionOf(r).data.courses # << >>

OverrideAccepted(v) == v.kind = "num" /\ v.v >= 0 /\ v.v <= 100

ActiveMonths(reached, H) ==
    Cardinality({m \in 1..H : monthly_time_totals(reached, H)[m] > 0})

\* C18: when the payload is scored by a bundle with months_required = H, the
\* row has the submission of assignment index i in month (i mod H) + 1: each
\* of the H monthly slots of the schema holds the statistics of that
\* distribution, and the engagement slot is the number of active months
\* divided by H.
C18_HorizonOfServedBundle ==
    \A r \in Workers :
        Returned(r) =>
            LET ex == ExtractionOf(r)
                H == ex.months_required
                reached == Reached(ex.data.courses)
            IN  /\ \A m \in 1..H :
                      /\ HasName(ex.names, MonthName("Score_Month_", m)) =>
                            Slot(ex, MonthName("Score_Month_", m))
                                = cumulative_scores(reached, H)[m]
                      /\ HasName(ex.names, MonthName("TimeSpent_Month_", m)) =>
                            Slot(ex, MonthName("TimeSpent_Month_", m))
                                = OfInt(monthly_time_totals(reached, H)[m])
                /\ HasName(ex.names, ApiNames.engagement)
                      /\ ~OverrideAccepted(ex.data.completionRate) =>
                        Slot(ex, ApiNames.engagement) = Rat(ActiveMonths(reached, H), H)


\* the payload of the documented example: one submission, score 80, time 30
ExamplePayload == Payload(<<Course(<<Good80>>)>>, Absent, Absent, Absent)

C20_RatioFollowsAvgScoreSlot ==
    \A r \in Workers :
        /\ Returned(r)
        /\ HasName(ExtractionOf(r).names, ApiNames.time_score_ratio)
        /\ HasName(ExtractionOf(r).names, ApiNames.avg_score)
        /\ HasName(ExtractionOf(r).names, ApiNames.avg_time)
        => LET ex == ExtractionOf(r)
               ratio == Slot(ex, ApiNames.time_score_ratio)
               avg_score == Slot(ex, ApiNames.avg_score)
               avg_time == Slot(ex, ApiNames.avg_time)
           IN  /\ avg_score = Zero => ratio = Zero
               /\ RPositive(avg_score) => ratio = RDiv(avg_time, avg_score)


RLeq(a, b) == a.n * b.d <= b.n * a.d

\* C21: the engagement slot of a returned row lies in [0, 1]: it is
\* completionRate / 100 when the payload carries a completionRate in [0, 100],
\* and otherwise the number of months with a positive time total divided by
\* the months the extractor builds, whatever the sign of the times.
C21_EngagementInUnitInterval ==
    \A r \in Workers :
        Returned(r) =>
            LET ex == ExtractionOf(r)
                reached == Reached(ex.data.courses)
                rate == ex.data.completionRate
                Right(H, nm, row) ==
                    HasName(ex.names, nm.engagement) =>
                        LET e == SlotOf(row, ex.names, nm.engagement)
                        IN  /\ RLeq(Zero, e) /\ RLeq(e, OfInt(1))
                            /\ e = IF rate.kind = "num" /\ rate.v >= 0 /\ rate.v <= 100
                                   THEN Rat(rate.v, 100)
                                   ELSE Rat(ActiveMonths(reached, H), H)
            IN  /\ Right(ApiMonths, ApiNames, ex.result.row)
                /\ Right(LegacyMonths, LegacyNames, ex.legacy.row)

\* a month whose only submission has a negative time is not active
C21_Witness ==
    \E r \in Workers :
        /\ Returned(r)
        /\ HasName(ExtractionOf(r).names, ApiNames.engagement)
        /\ ExtractionOf(r).data.courses
              = <<Course(<<Submission(Num(60), Num(0 - 10), TRUE), Good80>>)>>
        /\ Slot(ExtractionOf(r), ApiNames.engagement) = Rat(1, 6)


\* the payload without its two overrides
WithoutOverrides(data) == [data EXCEPT !.averageScore = Absent, !.completionRate = Absent]

\* C22: a finite averageScore replaces the avg_score slot and a completionRate
\* in [0, 100] replaces the engagement slot by completionRate / 100; an
\* override that is out of range, non-numeric or not finite leaves the
\* computed slot as it is and raises nothing; every other slot is what it is
\* without the overrides.
C22_OverridesTouchOwnSlot ==
    \A r \in Workers :
        Extracted(r) /\ ExtractionOf(r).data.courses # << >> =>
            LET ex == ExtractionOf(r)
                plain == processed_data(WithoutOverrides(ex.data), ex.names)
                avg == ex.data.averageScore
                rate == ex.data.completionRate
            IN  /\ ex.result.error = plain.error
                /\ ex.result.error = "None" =>
                      \A k \in 1..Len(ex.names) :
                          ex.result.row[k] =
                              IF ex.names[k] = ApiNames.avg_score /\ avg.kind = "num"
                              THEN OfInt(avg.v)
                              ELSE IF /\ ex.names[k] = ApiNames.engagement
                                      /\ rate.kind = "num" /\ rate.v >= 0 /\ rate.v <= 100
                              THEN Rat(rate.v, 100)
                              ELSE plain.row[k]

\* an accepted averageScore next to a completionRate that is out of range
C22_Witness ==
    \E r \in Workers :
        /\ Returned(r)
        /\ ExtractionOf(r).data.courses = <<Course(<<Good80>>)>>
        /\ ExtractionOf(r).data.averageScore = Num(50)
        /\ ExtractionOf(r).data.completionRate = Num(150)
        /\ HasName(ExtractionOf(r).names, ApiNames.avg_score)
        /\ HasName(ExtractionOf(r).names, ApiNames.engagement)
        /\ Slot(ExtractionOf(r), ApiNames.avg_score) = OfInt(50)
        /\ Slot(ExtractionOf(r), ApiNames.engagement) = Rat(1, 6)


\* C23: the gradeLevel slot is the integer in the payload when gradeLevel is
\* a valid number, and 12 when the key is absent or its value is invalid (a
\* non-numeric string, null, NaN, an infinity); an invalid gradeLevel never
\* makes the extractor raise.
C23_GradeLevelCoercedSafely ==
    \A r \in Workers :
        /\ Extracted(r)
        /\ ExtractionOf(r).data.courses # << >>
        /\ HasName(ExtractionOf(r).names, "gradeLevel")
        => LET ex == ExtractionOf(r)
               grade == ex.data.gradeLevel
           IN  /\ ex.result.error = "None"
               /\ Slot(ex, "gradeLevel") = IF grade.kind = "num" THEN OfInt(grade.v)
                                           ELSE OfInt(DefaultGradeLevel)


\* what POST /api/models/current answers and where it leaves the pointer
SwitchAnswer(r) ==
    LET b == reqs[r].body
        status == reqs[r].response.status
    IN  IF ~ENABLE_MULTI_MODEL
        THEN status = 400 /\ current_model_type = reqs[r].start_ptr
        ELSE (b.json_ok /\ b.data.model_id # "absent") =>
                IF b.data.model_id \in Loaded
                THEN status = 200 /\ current_model_type = b.data.model_id
                ELSE status = 404 /\ current_model_type = reqs[r].start_ptr

\* C24: POST /api/models/current answers 400 and leaves the active pointer
\* alone when switching is disabled, answers 404 and leaves it alone when
\* model_id is no loaded bundle, and otherwise answers success with the
\* pointer at model_id, where it stays until the next successful switch: with
\* requests served one at a time, a request of another kind that found the
\* pointer where a switch had put it (away from where loading left it)
\* returns with the pointer still there.
C24_SwitchRoute ==
    \A r \in Workers :
        /\ Done(r, "switch") => SwitchAnswer(r)
        /\ /\ reqs[r].pc = "done" /\ reqs[r].kind # "switch"
           /\ reqs[r].start_ptr # LoadResult(ENABLE_MULTI_MODEL, disk).current_model_type
           => current_model_type = reqs[r].start_ptr


\* C25: after start-up in multi-model mode an enumerated bundle is in the
\* registry exactly when its classifier and schema files exist and the schema
\* is not empty, whatever the other folders hold; loading fails exactly when
\* no enumerated bundle loads; in single-model mode a missing classifier or
\* schema (or an empty schema) fails loading; a missing scaler never keeps a
\* bundle out, and the bundle records the scaler as None.
C25_BundleLoading ==
    phase = "serving" =>
        IF ENABLE_MULTI_MODEL
        THEN /\ load_failed <=> \A id \in AvailableIds : disk[id] \notin {"ok", "no_scaler"}
             /\ ~load_failed =>
                    \A id \in AvailableIds :
                        /\ disk[id] \in {"no_classifier", "no_schema", "empty_schema", "absent"}
                              => id \notin Loaded
                        /\ disk[id] \in {"ok", "no_scaler"} => id \in Loaded
                        /\ id \in Loaded =>
                              models[id].scaler =
                                  (IF disk[id] = "no_scaler" THEN "None" ELSE "StandardScaler")
        ELSE /\ load_failed <=> disk["flat"] \notin {"ok", "no_scaler"}
             /\ disk["flat"] = "no_scaler" => models["single"].scaler = "None"

\* multi-model start-up with one bundle lacking its classifier, one lacking
\* its schema, one with an empty schema and one lacking only its scaler
C25_Witness ==
    /\ phase = "serving" /\ ENABLE_MULTI_MODEL /\ ~load_failed
    /\ disk["1_3"] = "no_classifier" /\ disk["1_6"] = "no_schema"
    /\ disk["1_9"] = "empty_schema" /\ disk["1_12"] = "no_scaler"
    /\ Loaded = {"1_12"}
    /\ models["1_12"].scaler = "None"


\* the monthly table a worker has just built
Table(r) == reqs[r].response.extraction

\* the group of student st has a kept row in column i of the table
HasRowIn(t, st, i) ==
    \E k \in 1..Len(t.active) :
        t.active[k].studentId = st /\ t.active[k].submissionDate.m = t.month_year[i]

\* C26: in the monthly table, a month column in which a student-course pair
\* has no submission holds, for that pair, the cumulative average of the
\* pair's previous month with submissions (0 if there is none) and time 0.
C26_EmptyMonthCopiedForward ==
    \A r \in Workers :
        Done(r, "bulk") =>
            LET t == Table(r)
            IN  \A st \in DOMAIN t.rows :
                    \A i \in 1..Len(t.month_year) :
                        ~HasRowIn(t, st, i) =>
                            LET earlier == {j \in 1..(i - 1) : HasRowIn(t, st, j)}
                                last == CHOOSE j \in earlier : \A o \in earlier : o <= j
                            IN  /\ t.rows[st].TimeSpent_Month[i] = Zero
                                /\ t.rows[st].Score_Month[i] =
                                      (IF earlier = {} THEN Zero
                                       ELSE t.rows[st].Score_Month[last])

\* a submission date within the course period, bounds included
InWindow(ds, s) ==
    DateLeq(ds.startDate, s.submissionDate) /\ DateLeq(s.submissionDate, ds.endDate)

\* C30: the course-window filter keeps exactly the submissions dated within
\* [startDate, endDate], whatever the day of the month the course starts on,
\* and a pair's late_submission_rate is taken over those submissions.
C30_WindowFilterKeepsInWindow ==
    \A r \in Workers :
        Done(r, "bulk") =>
            LET t == Table(r)
                ds == t.dataset
            IN  /\ \A k \in 1..Len(ds.submissions) :
                      InWindow(ds, ds.submissions[k]) <=>
                          \E j \in 1..Len(t.active) : t.active[j] = ds.submissions[k]
                /\ \A st \in {ds.submissions[k].studentId : k \in 1..Len(ds.submissions)} :
                      LET mine == SelectSeq(ds.submissions,
                                            LAMBDA s : s.studentId = st /\ InWindow(ds, s))
                      IN  mine # << >> =>
                              /\ st \in DOMAIN t.rows
                              /\ t.rows[st].late_submission_rate =
                                    Rat(Len(SelectSeq(mine, LAMBDA s : s.isLate)), Len(mine))


\* C27: a persistent switch is not lost.  Worker b's POST /api/models/current
\* answered 200 after finding the pointer on the bundle that worker a's
\* /api/predict override had put it on, so it ran while a was in flight; when
\* a has answered too, the active pointer is the bundle b switched to.
C27_PersistentSwitchNotLost ==
    \A a, b \in Workers :
        (/\ Done(a, "predict") /\ reqs[a].model_switched
         /\ reqs[a].response.status = 200
         /\ Done(b, "switch") /\ reqs[b].response.status = 200
         /\ reqs[b].start_ptr = reqs[a].requested_model_id
         /\ reqs[b].start_ptr # reqs[a].original_model_type)
            => current_model_type = reqs[b].body.data.model_id

\* C28: the classifier and the feature schema one /api/predict or
\* /api/predict/batch call worked with belong to the same bundle.
C28_ClassifierAndSchemaOfOneBundle ==
    \A r \in Workers :
        (/\ reqs[r].kind \in {"predict", "batch"} /\ reqs[r].pc = "done"
         /\ reqs[r].response.status = 200)
            => reqs[r].current_model.of = reqs[r].current_features.of


\* the first enumerated bundle, in AVAILABLE_MODELS order, of a registry
FirstLoaded(registered) ==
    LET order == SelectSeq(AvailableOrder, LAMBDA id : id \in registered)
    IN  order[1]

====
